---- MODULE Spec2Model ----
(***************************************************************************)
(* Drug Information & Interaction Explainer: the FastAPI backend           *)
(* (src/backend/main.py) and the Streamlit frontend (src/frontend/app.py). *)
(*                                                                         *)
(* Texts are TLA+ strings; a character is a string of length one.  The     *)
(* string helpers carry the names of the Python methods they model.        *)
(***************************************************************************)
EXTENDS Integers, Sequences, FiniteSets, TLC

(***************************************************************************)
(* Python string primitives                                                *)
(***************************************************************************)

\* str.strip() and the regex class \s remove these (the ASCII ones TLA+ can write)
Whitespace == {" ", "\t", "\n", "\r", "\f"}

\* the regex class \d
Digits == {"0", "1", "2", "3", "4", "5", "6", "7", "8", "9"}

LowerChars == "abcdefghijklmnopqrstuvwxyz"

UpperChars == "ABCDEFGHIJKLMNOPQRSTUVWXYZ"

\* the character of s at index i, "" outside the text
At(s, i) == IF 1 <= i /\ i <= Len(s) THEN SubSeq(s, i, i) ELSE ""

Take(s, n) == SubSeq(s, 1, n)

Drop(s, n) == SubSeq(s, n + 1, Len(s))

\* the first i in lo..hi with P(i), 0 when there is none: a left-to-right scan
First(lo, hi, P(_)) ==
    IF \E i \in lo..hi : P(i)
    THEN CHOOSE i \in lo..hi : P(i) /\ \A j \in lo..(i - 1) : ~P(j)
    ELSE 0

\* the last i in lo..hi with P(i), 0 when there is none
Last(lo, hi, P(_)) ==
    IF \E i \in lo..hi : P(i)
    THEN CHOOSE i \in lo..hi : P(i) /\ \A j \in (i + 1)..hi : ~P(j)
    ELSE 0

\* whether p occurs in s at index i
OccursAt(s, p, i) == i + Len(p) - 1 <= Len(s) /\ SubSeq(s, i, i + Len(p) - 1) = p

startswith(s, p) == OccursAt(s, p, 1)

\* str.strip(): the text between the first and the last non-whitespace character
strip(s) ==
    LET a == First(1, Len(s), LAMBDA i : At(s, i) \notin Whitespace)
        b == Last(1, Len(s), LAMBDA i : At(s, i) \notin Whitespace)
    IN  IF a = 0 THEN "" ELSE SubSeq(s, a, b)

\* the upper case of each lower-case letter
UpperOf ==
    [c \in {At(LowerChars, i) : i \in 1..Len(LowerChars)} |->
        At(UpperChars, CHOOSE i \in 1..Len(LowerChars) : At(LowerChars, i) = c)]

\* the lower case of each upper-case letter
LowerOf ==
    [c \in {At(UpperChars, i) : i \in 1..Len(UpperChars)} |->
        At(LowerChars, CHOOSE i \in 1..Len(UpperChars) : At(UpperChars, i) = c)]

\* TLA+ strings are ASCII.  Two characters outside ASCII are written with
\* symbols the program gives no meaning to: "@" stands for U+0149 (latin small
\* letter n preceded by apostrophe), the one letter of this model whose upper
\* case and title case are two characters, and "^" stands for U+02BC (modifier
\* letter apostrophe), the first of those two.
SmallNApostrophe == "@"

ModifierApostrophe == "^"

\* the upper case of one character, as str.upper() gives it
upper1(c) ==
    IF c = SmallNApostrophe THEN ModifierApostrophe \o "N"
    ELSE IF c \in DOMAIN UpperOf THEN UpperOf[c] ELSE c

lower1(c) == IF c \in DOMAIN LowerOf THEN LowerOf[c] ELSE c

\* str.upper(), over lo..hi so that the recursion is as deep as log(Len(s))
RECURSIVE upperRange(_, _, _)
upperRange(s, lo, hi) ==
    IF lo > hi THEN ""
    ELSE IF lo = hi THEN upper1(At(s, lo))
         ELSE LET mid == (lo + hi) \div 2
              IN  upperRange(s, lo, mid) \o upperRange(s, mid + 1, hi)

upper(s) == upperRange(s, 1, Len(s))

RECURSIVE lowerRange(_, _, _)
lowerRange(s, lo, hi) ==
    IF lo > hi THEN ""
    ELSE IF lo = hi THEN lower1(At(s, lo))
         ELSE LET mid == (lo + hi) \div 2
              IN  lowerRange(s, lo, mid) \o lowerRange(s, mid + 1, hi)

lower(s) == lowerRange(s, 1, Len(s))

\* the title case of one character: that of its upper case for every
\* character of this model
title1(c) == upper1(c)

\* str.capitalize(): first character title case, the rest lower case
capitalize(s) == IF s = "" THEN "" ELSE title1(At(s, 1)) \o lowerRange(s, 2, Len(s))

\* 1-based index of the first occurrence of p in s at or after i, 0 when none
findFrom(s, p, i) == First(i, Len(s) - Len(p) + 1, LAMBDA k : OccursAt(s, p, k))

find(s, p) == findFrom(s, p, 1)

\* str.replace(old, new): every non-overlapping occurrence, leftmost first
RECURSIVE replaceFrom(_, _, _, _)
replaceFrom(s, old, new, from) ==
    LET i == findFrom(s, old, from)
    IN  IF i = 0 THEN SubSeq(s, from, Len(s))
        ELSE SubSeq(s, from, i - 1) \o new \o replaceFrom(s, old, new, i + Len(old))

replace(s, old, new) == replaceFrom(s, old, new, 1)

\* str.split(sep), and re.split on a pattern that is a literal: the pieces
\* between the occurrences of sep, empty pieces kept
RECURSIVE splitFrom(_, _, _)
splitFrom(s, sep, from) ==
    LET i == findFrom(s, sep, from)
    IN  IF i = 0 THEN <<SubSeq(s, from, Len(s))>>
        ELSE <<SubSeq(s, from, i - 1)>> \o splitFrom(s, sep, i + Len(sep))

split(s, sep) == splitFrom(s, sep, 1)

\* sep.join(parts)
RECURSIVE join(_, _)
join(sep, parts) ==
    IF parts = <<>> THEN ""
    ELSE IF Len(parts) = 1 THEN parts[1]
         ELSE parts[1] \o sep \o join(sep, Tail(parts))

\* the index after the run of characters of set cs that starts at i
\* (i itself when s[i] is not in cs)
RunEnd(s, i, cs) ==
    LET j == First(i, Len(s), LAMBDA k : At(s, k) \notin cs)
    IN  IF j = 0 THEN Len(s) + 1 ELSE j

\* the index after the run of characters not in set cs that starts at i
RunEndNot(s, i, cs) ==
    LET j == First(i, Len(s), LAMBDA k : At(s, k) \in cs)
    IN  IF j = 0 THEN Len(s) + 1 ELSE j

(***************************************************************************)
(* Backend: response normalization (src/backend/main.py)                   *)
(***************************************************************************)

\* re.sub(r"\n{3,}", "\n\n", text): each match is a whole run of three or
\* more newlines, leftmost first
RECURSIVE collapseNewlinesFrom(_, _)
collapseNewlinesFrom(text, from) ==
    LET i == findFrom(text, "\n\n\n", from)
    IN  IF i = 0 THEN SubSeq(text, from, Len(text))
        ELSE SubSeq(text, from, i - 1) \o "\n\n"
                \o collapseNewlinesFrom(text, RunEnd(text, i, {"\n"}))

collapse_newlines(text) == collapseNewlinesFrom(text, 1)

\* re.sub(r" +", " ", text): each match is a whole run of spaces; a run of one
\* is replaced by itself, so the scan stops only at runs of two or more
RECURSIVE collapseSpacesFrom(_, _)
collapseSpacesFrom(text, from) ==
    LET i == findFrom(text, "  ", from)
    IN  IF i = 0 THEN SubSeq(text, from, Len(text))
        ELSE SubSeq(text, from, i - 1) \o " "
                \o collapseSpacesFrom(text, RunEnd(text, i, {" "}))

collapse_spaces(text) == collapseSpacesFrom(text, 1)

\* the alternation (mild|moderate|severe|unknown), in the regex's order
SeverityWords == <<"mild", "moderate", "severe", "unknown">>

SeverityHeader == "**Severity**: "

\* whether p occurs in s at index i, ignoring case (re.IGNORECASE)
OccursAtIgnoreCase(s, p, i) ==
    /\ i + Len(p) - 1 <= Len(s)
    /\ \A k \in 1..Len(p) : lower1(At(s, i + k - 1)) = lower1(At(p, k))

\* the pattern of uppercase_severity matched at index i of s, ignoring case:
\* the length of the severity word matched, 0 when the pattern does not match
SeverityMatch(s, i) ==
    IF OccursAtIgnoreCase(s, SeverityHeader, i)
    THEN LET k == First(1, Len(SeverityWords), LAMBDA n :
                      OccursAtIgnoreCase(s, SeverityWords[n], i + Len(SeverityHeader)))
         IN  IF k = 0 THEN 0 ELSE Len(SeverityWords[k])
    ELSE 0

\* a faulty variant of uppercase_severity: every letter in upper case,
\* whether or not a Severity header precedes it
UppercaseAll(text) == upper(text)

\* re.sub(r"\*\*Severity\*\*: (mild|moderate|severe|unknown)", repl, text,
\*        flags=re.IGNORECASE) with repl = "**Severity**: " + group(1).upper()
RECURSIVE uppercaseSeverityFrom(_, _)
uppercaseSeverityFrom(text, from) ==
    LET i == First(from, Len(text), LAMBDA k : SeverityMatch(text, k) > 0)
        h == Len(SeverityHeader)
    IN  IF i = 0 THEN SubSeq(text, from, Len(text))
        ELSE LET w == SeverityMatch(text, i)
             IN  SubSeq(text, from, i - 1)
                    \o SeverityHeader \o upper(SubSeq(text, i + h, i + h + w - 1))
                    \o uppercaseSeverityFrom(text, i + h + w)

uppercase_severity(text) == uppercaseSeverityFrom(text, 1)

InteractionOpen == "**Interaction "

InteractionClose == "**: "

\* the pattern \*\*Interaction (\d+)\*\*: ([^\n]+) matched at index i of s:
\* [ok, number |-> group 1, drugs |-> group 2, end |-> the index after the match]
InteractionMatch(s, i) ==
    LET d1 == i + Len(InteractionOpen)
        d2 == RunEnd(s, d1, Digits)
        g1 == d2 + Len(InteractionClose)
        g2 == RunEndNot(s, g1, {"\n"})
    IN  IF OccursAt(s, InteractionOpen, i) /\ d2 > d1
           /\ OccursAt(s, InteractionClose, d2) /\ g2 > g1
        THEN [ok |-> TRUE, number |-> SubSeq(s, d1, d2 - 1),
              drugs |-> SubSeq(s, g1, g2 - 1), end |-> g2]
        ELSE [ok |-> FALSE, number |-> "", drugs |-> "", end |-> i]

\* [d.strip().capitalize() for d in drugs.split('+')]
CapitalizeEach(parts) == [i \in 1..Len(parts) |-> capitalize(strip(parts[i]))]

\* a faulty variant of CapitalizeRepl: the header kept, the drugs lost
HeaderOnly(number, drugs) == InteractionOpen \o number \o InteractionClose

\* repl of capitalize_medications: the header kept, the drugs re-joined
CapitalizeRepl(number, drugs) ==
    InteractionOpen \o number \o InteractionClose
        \o join(" + ", CapitalizeEach(split(drugs, "+")))

\* re.sub(r"\*\*Interaction (\d+)\*\*: ([^\n]+)", repl, text)
RECURSIVE capitalizeMedicationsFrom(_, _)
capitalizeMedicationsFrom(text, from) ==
    LET i == First(from, Len(text), LAMBDA k : InteractionMatch(text, k).ok)
    IN  IF i = 0 THEN SubSeq(text, from, Len(text))
        ELSE LET m == InteractionMatch(text, i)
             IN  SubSeq(text, from, i - 1) \o CapitalizeRepl(m.number, m.drugs)
                    \o capitalizeMedicationsFrom(text, m.end)

capitalize_medications(text) == capitalizeMedicationsFrom(text, 1)

\* the post-processing of the /interactions answer, after .strip():
\* lines 175-178, in the code's order
PostProcess(answer) ==
    capitalize_medications(uppercase_severity(collapse_spaces(collapse_newlines(answer))))

\* clean_drug_info_response(text)
clean_drug_info_response(text) ==
    strip(collapse_spaces(collapse_newlines(text)))

(***************************************************************************)
(* Frontend: record parsers (src/frontend/app.py)                          *)
(***************************************************************************)

\* explanation.replace(r"\*\*", "**"): backslash-escaped asterisks unescaped
Unescape(explanation) == replace(explanation, "\\*\\*", "**")

\* the record returned when the text is the no-interaction message
NoInteractionRecord(message) ==
    [severity |-> "info", interaction |-> "", what |-> "", risks |-> "",
     advice |-> "", message |-> message]

\* inter as it is before the sections of a block are read
EmptyInter ==
    [interaction |-> "", severity |-> "", what |-> "", risks |-> "",
     advice |-> "", message |-> ""]

\* a faulty variant of IsNoInteraction: the test without the strip()
StartsWithQuote(explanation) == startswith(explanation, ">")

\* explanation.strip().startswith('>')
IsNoInteraction(explanation) == startswith(strip(explanation), ">")

InteractionPrefix == "**Interaction"

\* a faulty variant of Reattach: the prefix the split consumed is not put back
KeepBlock(block) == block

\* "**Interaction" + block if not block.startswith("**Interaction") else block
Reattach(block) ==
    IF startswith(block, InteractionPrefix) THEN block ELSE InteractionPrefix \o block

\* re.sub(r"^\*\*Interaction ?\d+\*\*: ?", "", sec), sec starting with
\* "**Interaction": the header removed when the pattern matches, sec otherwise
SubInteractionHeader(sec) ==
    LET p  == Len(InteractionPrefix) + 1
        d1 == IF At(sec, p) = " " THEN p + 1 ELSE p
        d2 == RunEnd(sec, d1, Digits)
        e  == d2 + Len("**:")
    IN  IF d2 > d1 /\ OccursAt(sec, "**:", d2)
        THEN Drop(sec, IF At(sec, e) = " " THEN e ELSE e - 1)
        ELSE sec

\* re.sub(r"^<header> ?", "", sec), sec starting with header
SubHeader(sec, header) ==
    LET e == Len(header) + 1
    IN  Drop(sec, IF At(sec, e) = " " THEN e ELSE e - 1)

\* one pass of the loop over the sections of a block
ParseSection(inter, section) ==
    LET sec == strip(section)
    IN  IF sec = "" THEN inter
        ELSE IF startswith(sec, InteractionPrefix)
             THEN [inter EXCEPT !.interaction = strip(SubInteractionHeader(sec))]
        ELSE IF startswith(sec, "**Severity**:")
             THEN [inter EXCEPT !.severity = strip(SubHeader(sec, "**Severity**:"))]
        ELSE IF startswith(sec, "**What happens**:")
             THEN [inter EXCEPT !.what = strip(SubHeader(sec, "**What happens**:"))]
        ELSE IF startswith(sec, "**Risks or symptoms**:")
             THEN [inter EXCEPT !.risks = strip(SubHeader(sec, "**Risks or symptoms**:"))]
        ELSE IF startswith(sec, "**Advice**:")
             THEN [inter EXCEPT !.advice = strip(SubHeader(sec, "**Advice**:"))]
        ELSE inter

\* a faulty variant of ParseSections: the sections read from the last to the
\* first, so that the first occurrence of a header is the one that stays
RECURSIVE ParseSectionsReversed(_, _, _)
ParseSectionsReversed(inter, sections, i) ==
    IF i > Len(sections) THEN inter
    ELSE ParseSection(ParseSectionsReversed(inter, sections, i + 1), sections[i])

\* the loop over the sections, from section i on
RECURSIVE ParseSections(_, _, _)
ParseSections(inter, sections, i) ==
    IF i > Len(sections) THEN inter
    ELSE ParseSections(ParseSection(inter, sections[i]), sections, i + 1)

\* a faulty variant of ParseBlock: no "if not block: continue"
ParseBlockKeepBlank(block) ==
    <<ParseSections(EmptyInter, split(Reattach(strip(block)), "\n"), 1)>>

\* the body of the loop over the blocks: the records one block appends
ParseBlock(block) ==
    LET b == strip(block)
    IN  IF b = "" THEN <<>>
        ELSE <<ParseSections(EmptyInter, split(Reattach(b), "\n"), 1)>>

\* the loop over the blocks, from block i on
RECURSIVE ParseBlocks(_, _)
ParseBlocks(blocks, i) ==
    IF i > Len(blocks) THEN <<>>
    ELSE ParseBlock(blocks[i]) \o ParseBlocks(blocks, i + 1)

\* re.split(r"\n\*\*Interaction", explanation)
SplitBlocks(explanation) == split(explanation, "\n" \o InteractionPrefix)

parse_interactions(explanation) ==
    LET e == Unescape(explanation)
    IN  IF IsNoInteraction(e) THEN <<NoInteractionRecord(strip(e))>>
        ELSE ParseBlocks(SplitBlocks(e), 1)

\* the alternation of parse_drug_info's split pattern, in the regex's order
DrugInfoHeaders ==
    <<"Description", "Uses", "Side Effects", "Dosage", "Names", "Pregnancy",
      "Personalized Dose">>

\* drug_info as it is before the sections are read
EmptyDrugInfo ==
    [description |-> "", uses |-> "", side_effects |-> "", dosage |-> "",
     names |-> "", pregnancy |-> "", personalized_dose |-> ""]

\* \*\*(Description|...|Personalized Dose)\*\*: matched at index i of s:
\* the number of the header matched, 0 when the pattern does not match
DrugInfoMatch(s, i) ==
    IF OccursAt(s, "**", i)
    THEN First(1, Len(DrugInfoHeaders), LAMBDA n :
                 OccursAt(s, DrugInfoHeaders[n] \o "**:", i + 2))
    ELSE 0

\* re.split with one capturing group: text, header, text, header, ..., text
RECURSIVE SplitDrugInfoFrom(_, _)
SplitDrugInfoFrom(s, from) ==
    LET i == First(from, Len(s), LAMBDA k : DrugInfoMatch(s, k) > 0)
    IN  IF i = 0 THEN <<SubSeq(s, from, Len(s))>>
        ELSE LET name == DrugInfoHeaders[DrugInfoMatch(s, i)]
             IN  <<SubSeq(s, from, i - 1), name>>
                    \o SplitDrugInfoFrom(s, i + Len(name) + 5)

\* re.sub(r'\n\s*\n', ' ', content): a match runs from a newline to the last
\* newline of the whitespace that follows it
RECURSIVE SubBlankLinesFrom(_, _)
SubBlankLinesFrom(s, from) ==
    LET LastNewline(k) ==
            Last(k + 1, RunEnd(s, k + 1, Whitespace) - 1, LAMBDA j : At(s, j) = "\n")
        i == First(from, Len(s), LAMBDA k : At(s, k) = "\n" /\ LastNewline(k) > 0)
    IN  IF i = 0 THEN SubSeq(s, from, Len(s))
        ELSE SubSeq(s, from, i - 1) \o " " \o SubBlankLinesFrom(s, LastNewline(i) + 1)

\* the clean-up of one section's content
CleanSection(content) ==
    strip(replace(SubBlankLinesFrom(strip(content), 1), "\n", " "))

\* sections[i].lower().replace(" ", "_")
SectionKey(name) == replace(lower(name), " ", "_")

\* the loop over the (header, content) pairs, from index i on
RECURSIVE ParseDrugSections(_, _, _)
ParseDrugSections(drug_info, sections, i) ==
    IF i + 1 > Len(sections) THEN drug_info
    ELSE ParseDrugSections(
            [drug_info EXCEPT ![SectionKey(sections[i])] = CleanSection(sections[i + 1])],
            sections, i + 2)

parse_drug_info(explanation) ==
    ParseDrugSections(EmptyDrugInfo, SplitDrugInfoFrom(Unescape(explanation), 1), 2)

(***************************************************************************)
(* Backend: prompt builders (src/backend/main.py)                          *)
(*                                                                         *)
(* Numbers are exact: a height is in hundredths of a centimetre, a weight  *)
(* in milligrams, a BMI in tenths (the prompt prints one decimal).         *)
(***************************************************************************)

\* build_prompt(meds): the one line of the template that depends on meds
build_prompt(meds) ==
    "The patient has listed the following medications: " \o join(", ", meds)

\* dict.get(key, default)
Get(d, key, default) == IF key \in DOMAIN d THEN d[key] ELSE default

\* a * k = q * d + r with 0 <= r < d, without leaving 32 bits
RECURSIVE MulDivMod(_, _, _)
MulDivMod(a, k, d) ==
    IF k = 0 THEN [q |-> 0, r |-> 0]
    ELSE IF k % 2 = 0
         THEN LET h == MulDivMod(a, k \div 2, d)
              IN  [q |-> 2 * h.q + (2 * h.r) \div d, r |-> (2 * h.r) % d]
         ELSE LET h == MulDivMod(a, k - 1, d)
              IN  [q |-> h.q + (a \div d) + (h.r + (a % d)) \div d,
                   r |-> (h.r + (a % d)) % d]

\* weight / ((height / 100) ** 2) as printed by {bmi:.1f}, height # 0:
\* kg / m^2 = 100 * mg / (cm/100)^2, so tenths = 1000 * weight / height^2
BmiTenths(height, weight) ==
    LET m == MulDivMod(weight, 1000, height * height)
    IN  m.q + (IF 2 * m.r >= height * height THEN 1 ELSE 0)

\* build_drug_info_prompt(medication, personal_info): the parts of the template
\* that depend on the arguments; the division raises ZeroDivisionError
build_drug_info_prompt(medication, personal_info) ==
    LET height      == Get(personal_info, "height", 17000)
        weight      == Get(personal_info, "weight", 70000000)
        age         == Get(personal_info, "age", 30)
        is_pregnant == Get(personal_info, "is_pregnant", FALSE)
    IN  IF height = 0 THEN [raised |-> "ZeroDivisionError"]
        ELSE [raised |-> "",
              medication |-> medication,
              age |-> age,
              height |-> height,
              weight |-> weight,
              bmi |-> BmiTenths(height, weight),
              pregnancy_text |-> IF is_pregnant
                                 THEN "The patient is currently pregnant."
                                 ELSE "The patient is not pregnant.",
              pregnancy_section |-> is_pregnant]

(***************************************************************************)
(* Frontend: rendering (src/frontend/app.py)                               *)
(***************************************************************************)

Widget(kind, text) == [widget |-> kind, text |-> text]

\* severity_box(severity, inter): an info box for the no-interaction message,
\* a coloured box otherwise (the accent is chosen by the severity)
severity_box(severity, inter) ==
    LET sev == lower(severity)
    IN  IF inter.message # "" THEN Widget("info", inter.message)
        ELSE [widget |-> "box",
              accent |-> IF find(sev, "severe") > 0 THEN "#b71c1c"
                         ELSE IF find(sev, "moderate") > 0 THEN "#f9a825"
                         ELSE IF find(sev, "mild") > 0 THEN "#388e3c"
                         ELSE "#343a40",
              severity |-> inter.severity,
              interaction |-> inter.interaction,
              what |-> inter.what,
              risks |-> inter.risks,
              advice |-> inter.advice]

\* the loop over interactions: a box and a divider for each
RECURSIVE RenderBoxes(_, _)
RenderBoxes(interactions, i) ==
    IF i > Len(interactions) THEN <<>>
    ELSE <<severity_box(interactions[i].severity, interactions[i]),
           Widget("markdown", "---")>> \o RenderBoxes(interactions, i + 1)

\* what the Drug Interactions tab shows for a 200 response
RenderInteractions(interactions) ==
    <<Widget("markdown", "### Interaction Explanation")>>
        \o (IF interactions = <<>> THEN <<Widget("info", "No interactions found.")>>
            ELSE <<>>)
        \o RenderBoxes(interactions, 1)

\* format_drug_info_section(title, content, icon), called when content is not empty
Section(title, content) ==
    IF content = "" THEN <<>>
    ELSE <<[widget |-> "section", title |-> title, text |-> content]>>

\* what the Drug Information tab shows for a 200 response
RenderDrugInfo(explanation, drug_info, is_pregnant) ==
    <<Widget("markdown", "### Drug Information"),
      Widget("expander", explanation),
      [widget |-> "json", value |-> drug_info]>>
        \o Section("Description", drug_info.description)
        \o Section("Medical Uses", drug_info.uses)
        \o Section("Generic & Brand Names", drug_info.names)
        \o Section("Standard Dosage", drug_info.dosage)
        \o Section("Personalized Dosage Recommendation", drug_info.personalized_dose)
        \o Section("Common Side Effects", drug_info.side_effects)
        \o (IF is_pregnant
            THEN Section("Pregnancy Considerations", drug_info.pregnancy) ELSE <<>>)
        \o (IF \A k \in DOMAIN drug_info : drug_info[k] = ""
            THEN <<Widget("warning",
                          "Unable to parse response into sections. Showing raw response:"),
                   Widget("text", explanation)>>
            ELSE <<>>)

(***************************************************************************)
(* The request flow: a click in the frontend (or a direct client of the    *)
(* API) posts a request, the endpoint builds the prompt and calls the      *)
(* generator, the generator answers or fails, the endpoint responds, the   *)
(* frontend parses and renders.                                            *)
(***************************************************************************)

VARIABLES
    pc,            \* idle, posted, generating, responded, done
    client,        \* who posted: "frontend" or "api"
    form,          \* the widgets' values at the click
    request,       \* the body posted to the endpoint
    prompt,        \* the prompt the generator was called with
    completion,    \* what the generator did
    response,      \* the endpoint's response
    interactions,  \* the frontend's parse_interactions result
    drug_info,     \* the frontend's parse_drug_info result
    ui             \* what the frontend shows

vars == <<pc, client, form, request, prompt, completion, response,
          interactions, drug_info, ui>>

NoForm == [tab |-> "none"]

NoRequest == [endpoint |-> "none"]

NoPrompt == [endpoint |-> "none"]

NoCompletion == [outcome |-> "none"]

NoResponse == [status_code |-> 0, explanation |-> "", detail |-> "", text |-> ""]

\* return {"explanation": answer}; text is kept for the bodies the frontend prints
OkResponse(answer) ==
    [status_code |-> 200, explanation |-> answer, detail |-> "", text |-> ""]

\* an except branch that swallowed the error and answered with no explanation
SwallowedError(e) ==
    [status_code |-> 200, explanation |-> "", detail |-> "", text |-> ""]

\* raise HTTPException(status_code=500, detail=str(e))
ErrorResponse(e) ==
    [status_code |-> 500, explanation |-> "", detail |-> e,
     text |-> "{\"detail\":\"" \o e \o "\"}"]

\* an exception no handler catches: the framework's plain 500
UnhandledResponse ==
    [status_code |-> 500, explanation |-> "", detail |-> "",
     text |-> "Internal Server Error"]

\* [m.strip() for m in meds_input.split(",") if m.strip()]
SplitMeds(meds_input) ==
    LET parts == split(meds_input, ",")
        kept  == SelectSeq(parts, LAMBDA m : strip(m) # "")
    IN  [i \in 1..Len(kept) |-> strip(kept[i])]

\* the personal_info the Drug Information tab posts
PersonalInfo(height_feet, height_inches, weight, age, is_pregnant) ==
    [height |-> (height_feet * 12 + height_inches) * 254,
     weight |-> weight * 453592,
     age |-> age,
     is_pregnant |-> is_pregnant,
     height_display |-> ToString(height_feet) \o "'" \o ToString(height_inches) \o "\"",
     weight_display |-> ToString(weight) \o " lbs"]

\* answer of get_interactions: content.strip(), then the post-processing
InteractionsAnswer(content) == PostProcess(strip(content))

\* answer of get_drug_info: content.strip(), then clean_drug_info_response
DrugInfoAnswer(content) == clean_drug_info_response(strip(content))

Init ==
    /\ pc = "idle"
    /\ client = "none"
    /\ form = NoForm
    /\ request = NoRequest
    /\ prompt = NoPrompt
    /\ completion = NoCompletion
    /\ response = NoResponse
    /\ interactions = <<>>
    /\ drug_info = EmptyDrugInfo
    /\ ui = <<>>

\* the "Check Interactions" button
ClickCheckInteractions(meds_input) ==
    /\ pc = "idle"
    /\ client' = "frontend"
    /\ form' = [tab |-> "interactions", meds_input |-> meds_input]
    /\ IF meds_input # ""
       THEN /\ request' = [endpoint |-> "/interactions",
                           medications |-> SplitMeds(meds_input)]
            /\ pc' = "posted"
            /\ ui' = ui
       ELSE /\ request' = request
            /\ pc' = "done"
            /\ ui' = <<Widget("warning", "Please enter at least one medication.")>>
    /\ UNCHANGED <<prompt, completion, response, interactions, drug_info>>

\* the "Get Drug Information" button
ClickGetDrugInformation(drug_input, height_feet, height_inches, weight, age, is_pregnant) ==
    /\ pc = "idle"
    /\ client' = "frontend"
    /\ form' = [tab |-> "drug_info", drug_input |-> drug_input,
                is_pregnant |-> is_pregnant]
    /\ IF drug_input # ""
       THEN /\ request' = [endpoint |-> "/drug-info",
                           medication |-> strip(drug_input),
                           personal_info |-> PersonalInfo(height_feet, height_inches,
                                                          weight, age, is_pregnant)]
            /\ pc' = "posted"
            /\ ui' = ui
       ELSE /\ request' = request
            /\ pc' = "done"
            /\ ui' = <<Widget("warning", "Please enter a medication name.")>>
    /\ UNCHANGED <<prompt, completion, response, interactions, drug_info>>

\* a client other than the frontend posts to /interactions
ApiPostInteractions(medications) ==
    /\ pc = "idle"
    /\ client' = "api"
    /\ request' = [endpoint |-> "/interactions", medications |-> medications]
    /\ pc' = "posted"
    /\ UNCHANGED <<form, prompt, completion, response, interactions, drug_info, ui>>

\* a client other than the frontend posts to /drug-info
ApiPostDrugInfo(medication, personal_info) ==
    /\ pc = "idle"
    /\ client' = "api"
    /\ request' = [endpoint |-> "/drug-info", medication |-> medication,
                   personal_info |-> personal_info]
    /\ pc' = "posted"
    /\ UNCHANGED <<form, prompt, completion, response, interactions, drug_info, ui>>

\* requests.post raises: the frontend's except branch
BackendUnreachable(e) ==
    /\ pc = "posted"
    /\ client = "frontend"
    /\ ui' = <<Widget("error", "Error connecting to backend: " \o e)>>
    /\ pc' = "done"
    /\ UNCHANGED <<client, form, request, prompt, completion, response,
                   interactions, drug_info>>

\* get_interactions, up to the call of the generator
get_interactions ==
    /\ pc = "posted"
    /\ request.endpoint = "/interactions"
    /\ prompt' = [endpoint |-> "/interactions",
                  content |-> build_prompt(request.medications)]
    /\ pc' = "generating"
    /\ UNCHANGED <<client, form, request, completion, response, interactions,
                   drug_info, ui>>

\* get_drug_info, up to the call of the generator; build_drug_info_prompt is
\* called outside the try block
get_drug_info ==
    /\ pc = "posted"
    /\ request.endpoint = "/drug-info"
    /\ LET p == build_drug_info_prompt(request.medication, request.personal_info)
       IN  IF p.raised # ""
           THEN /\ response' = UnhandledResponse
                /\ pc' = "responded"
                /\ prompt' = prompt
           ELSE /\ prompt' = [endpoint |-> "/drug-info", content |-> p]
                /\ pc' = "generating"
                /\ response' = response
    /\ UNCHANGED <<client, form, request, completion, interactions, drug_info, ui>>

\* the generator answers with content: the rest of the try block
GeneratorReturns(content) ==
    /\ pc = "generating"
    /\ completion' = [outcome |-> "content", content |-> content]
    /\ response' = IF request.endpoint = "/interactions"
                   THEN OkResponse(InteractionsAnswer(content))
                   ELSE OkResponse(DrugInfoAnswer(content))
    /\ pc' = "responded"
    /\ UNCHANGED <<client, form, request, prompt, interactions, drug_info, ui>>

\* the generator answers with no content: .strip() raises inside the try block
GeneratorReturnsNone ==
    /\ pc = "generating"
    /\ completion' = [outcome |-> "none_content"]
    /\ response' = ErrorResponse("'NoneType' object has no attribute 'strip'")
    /\ pc' = "responded"
    /\ UNCHANGED <<client, form, request, prompt, interactions, drug_info, ui>>

\* the generator call raises e: the except branch
GeneratorFails(e) ==
    /\ pc = "generating"
    /\ completion' = [outcome |-> "error", error |-> e]
    /\ response' = ErrorResponse(e)
    /\ pc' = "responded"
    /\ UNCHANGED <<client, form, request, prompt, interactions, drug_info, ui>>

\* the Drug Interactions tab receives the response
InteractionsResponse ==
    /\ pc = "responded"
    /\ client = "frontend"
    /\ request.endpoint = "/interactions"
    /\ IF response.status_code = 200
       THEN /\ interactions' = parse_interactions(response.explanation)
            /\ ui' = RenderInteractions(interactions')
       ELSE /\ interactions' = interactions
            /\ ui' = <<Widget("error", "API error: " \o response.text)>>
    /\ pc' = "done"
    /\ UNCHANGED <<client, form, request, prompt, completion, response, drug_info>>

\* the Drug Information tab receives the response
DrugInfoResponse ==
    /\ pc = "responded"
    /\ client = "frontend"
    /\ request.endpoint = "/drug-info"
    /\ IF response.status_code = 200
       THEN /\ drug_info' = parse_drug_info(response.explanation)
            /\ ui' = RenderDrugInfo(response.explanation, drug_info', form.is_pregnant)
       ELSE /\ drug_info' = drug_info
            /\ ui' = <<Widget("error", "API error: " \o response.text)>>
    /\ pc' = "done"
    /\ UNCHANGED <<client, form, request, prompt, completion, response, interactions>>

\* a client other than the frontend receives the response
ApiResponse ==
    /\ pc = "responded"
    /\ client = "api"
    /\ pc' = "done"
    /\ UNCHANGED <<client, form, request, prompt, completion, response,
                   interactions, drug_info, ui>>

\* the next script run: nothing is kept between requests
Rerun ==
    /\ pc = "done"
    /\ pc' = "idle"
    /\ client' = "none"
    /\ form' = NoForm
    /\ request' = NoRequest
    /\ prompt' = NoPrompt
    /\ completion' = NoCompletion
    /\ response' = NoResponse
    /\ interactions' = <<>>
    /\ drug_info' = EmptyDrugInfo
    /\ ui' = <<>>

(***************************************************************************)
(* Inputs                                                                  *)
(***************************************************************************)

\* what is typed into "Enter your medications (comma separated):"
MedsInputs == {"", " ", ",", "aspirin", "aspirin, warfarin", " Ibuprofen ,, lisinopril "}

\* what is typed into "Enter a medication name:"
DrugInputs == {"", " ", "aspirin", " Metformin "}

\* values of the number inputs, each within the widget's min_value..max_value
HeightFeet == {3, 5, 8}

HeightInches == {0, 7, 11}

WeightLbs == {66, 154, 440}

Ages == {30, 120}

\* bodies a direct client posts to /interactions
ApiMedications == {<<>>, <<"">>, <<"aspirin", "warfarin">>}

\* personal_info a direct client posts to /drug-info: any JSON object
ApiPersonalInfo ==
    {[height |-> h, weight |-> w, age |-> 30, is_pregnant |-> FALSE] :
        h \in {-17000, 0, 17000}, w \in {-70000000, 0, 70000000}}
    \cup {[age |-> 30], [is_pregnant |-> TRUE]}

ApiMedication == {"", "aspirin"}

\* texts of the exceptions the generator call and the HTTP client raise
GenErrors == {"Rate limit exceeded", "Request timed out."}

ConnectErrors == {"Connection refused"}

\* contents the generator answers with in the request flow
GenTexts ==
    {"",
     ">No known interactions were found between these medications. Always check with a doctor or pharmacist.",
     "**Interaction 1**: aspirin + warfarin\n**Severity**: severe\n**What happens**: bleeding risk\n**Risks or symptoms**: bruising\n**Advice**: consult doctor",
     "Here is what I found:\n\n**Interaction 1**: Aspirin + Warfarin\n\n**Severity**: Moderate",
     "**Description**: a pain reliever\n\n**Uses**: pain\n**Pregnancy**: avoid",
     "I am not sure about this medication."}

Next ==
    \/ \E meds_input \in MedsInputs : ClickCheckInteractions(meds_input)
    \/ \E drug_input \in DrugInputs, height_feet \in HeightFeet,
          height_inches \in HeightInches, weight \in WeightLbs, age \in Ages,
          is_pregnant \in BOOLEAN :
            ClickGetDrugInformation(drug_input, height_feet, height_inches, weight,
                                    age, is_pregnant)
    \/ \E medications \in ApiMedications : ApiPostInteractions(medications)
    \/ \E medication \in ApiMedication, personal_info \in ApiPersonalInfo :
            ApiPostDrugInfo(medication, personal_info)
    \/ \E e \in ConnectErrors : BackendUnreachable(e)
    \/ get_interactions
    \/ get_drug_info
    \/ \E content \in GenTexts : GeneratorReturns(content)
    \/ GeneratorReturnsNone
    \/ \E e \in GenErrors : GeneratorFails(e)
    \/ InteractionsResponse
    \/ DrugInfoResponse
    \/ ApiResponse
    \/ Rerun

Spec == Init /\ [][Next]_vars

(***************************************************************************)
(* Texts for the parsers and the normalizer                                *)
(***************************************************************************)

MaxPieces == 3

MaxBlocks == 2

\* fragments a generated text is put together from: plain text in both cases,
\* a letter outside ASCII, white space, the characters the code treats
\* specially, escaped asterisks, and section headers whole and cut short
Pieces ==
    <<"a", "B", SmallNApostrophe, " ", "\n", "\n\n", "+", ">", "\\*\\*", "mild",
      "**Interaction", "**Interaction 1**: ", "**Severity**: ",
      "**SEVERITY**: moderate", "**Advice**: ", "**Uses**: ">>

RECURSIVE Concat(_, _)
Concat(ps, i) == IF i > Len(ps) THEN "" ELSE Pieces[ps[i]] \o Concat(ps, i + 1)

\* every text of at most MaxPieces fragments
AnyTexts ==
    {Concat(ps, 1) : ps \in UNION {[1..n -> 1..Len(Pieces)] : n \in 0..MaxPieces}}

\* the values of one interaction block of the output grammar, and the space
\* the generator leaves after each header's colon
BlockChoices ==
    [pair     : {"aspirin + warfarin", "Ibuprofen+a  B"},
     severity : {"severe", "Mild to moderate"},
     gap      : {" ", ""}]

\* one block of the output grammar (build_prompt, lines 62-70), numbered n,
\* its five lines separated by sep
BlockText(n, b, sep) ==
    "**Interaction " \o ToString(n) \o "**:" \o b.gap \o b.pair \o sep
        \o "**Severity**:" \o b.gap \o b.severity \o sep
        \o "**What happens**:" \o b.gap \o "bleeding  risk" \o sep
        \o "**Risks or symptoms**:" \o b.gap \o "bruising " \o sep
        \o "**Advice**:" \o b.gap \o "consult doctor"

RECURSIVE BlocksText(_, _, _)
BlocksText(bs, sep, n) ==
    IF n > Len(bs) THEN ""
    ELSE BlockText(n, bs[n], sep)
            \o (IF n < Len(bs) THEN sep ELSE "") \o BlocksText(bs, sep, n + 1)

\* the raw response the specification gives as its example of a block
ExampleText ==
    "**Interaction 1**: aspirin + warfarin\n**Severity**: severe\n"
        \o "**What happens**: bleeding risk\n**Risks or symptoms**: bruising\n"
        \o "**Advice**: consult doctor"

\* every text of 1..MaxBlocks blocks, with one or two line breaks between
\* lines, and the example
WellFormedTexts ==
    {BlocksText(bs, sep, 1) :
        bs \in UNION {[1..n -> BlockChoices] : n \in 1..MaxBlocks},
        sep \in {"\n", "\n\n"}}
    \cup {ExampleText}

MaxExtra == 2

\* lines a generator adds to a block: the second line of a value, a header
\* said again with another value, an Interaction header that is indented, a
\* header in another letter case
ExtraLines ==
    {"and see a pharmacist", "**Severity**: moderate",
     " **Interaction 9**: x + y", "**RISKS OR SYMPTOMS**: none"}

\* lines with line l put in after the first k of them
InsertAt(lines, k, l) == SubSeq(lines, 1, k) \o <<l>> \o SubSeq(lines, k + 1, Len(lines))

\* the sequences of lines got from lines by putting in n extra lines
RECURSIVE WithExtraLines(_, _)
WithExtraLines(lines, n) ==
    IF n = 0 THEN {lines}
    ELSE UNION {{InsertAt(ls, k, l) : k \in 0..Len(ls), l \in ExtraLines} :
                    ls \in WithExtraLines(lines, n - 1)}

\* the example block with 1..MaxExtra extra lines, alone or followed by a
\* second block
MessyTexts ==
    {join("\n", ls) \o tail :
        ls \in UNION {WithExtraLines(split(ExampleText, "\n"), n) : n \in 1..MaxExtra},
        tail \in {"", "\n**Interaction 2**: b + c\nno known risk"}}

(***************************************************************************)
(* The normalizer and the parsers on generated texts: the generator has    *)
(* been called for a request of the frontend and answers with any text.    *)
(***************************************************************************)

InitNormalize ==
    /\ pc = "generating"
    /\ client = "frontend"
    /\ completion = NoCompletion
    /\ response = NoResponse
    /\ interactions = <<>>
    /\ drug_info = EmptyDrugInfo
    /\ ui = <<>>
    /\ \/ /\ form = [tab |-> "interactions", meds_input |-> "aspirin, warfarin"]
          /\ request = [endpoint |-> "/interactions",
                        medications |-> SplitMeds(form.meds_input)]
          /\ prompt = [endpoint |-> "/interactions",
                       content |-> build_prompt(request.medications)]
       \/ /\ form = [tab |-> "drug_info", drug_input |-> "aspirin",
                     is_pregnant |-> FALSE]
          /\ request = [endpoint |-> "/drug-info", medication |-> strip(form.drug_input),
                        personal_info |-> PersonalInfo(5, 7, 154, 30, form.is_pregnant)]
          /\ prompt = [endpoint |-> "/drug-info",
                       content |-> build_drug_info_prompt(request.medication,
                                                          request.personal_info)]

NextNormalize ==
    \/ /\ pc = "generating"
       /\ \E content \in AnyTexts : GeneratorReturns(content)
    \/ /\ pc = "generating"
       /\ request.endpoint = "/interactions"
       /\ \E content \in WellFormedTexts : GeneratorReturns(content)
    \/ InteractionsResponse
    \/ DrugInfoResponse

SpecNormalize == InitNormalize /\ [][NextNormalize]_vars

(***************************************************************************)
(* parse_interactions on any text: a 200 response carrying the text        *)
(* arrives at the Drug Interactions tab.                                   *)
(***************************************************************************)

InitParse ==
    /\ pc = "responded"
    /\ client = "frontend"
    /\ form = [tab |-> "interactions", meds_input |-> "aspirin, warfarin"]
    /\ request = [endpoint |-> "/interactions",
                  medications |-> SplitMeds(form.meds_input)]
    /\ prompt = [endpoint |-> "/interactions",
                 content |-> build_prompt(request.medications)]
    /\ completion = NoCompletion
    /\ \E explanation \in AnyTexts \cup WellFormedTexts \cup MessyTexts :
            response = OkResponse(explanation)
    /\ interactions = <<>>
    /\ drug_info = EmptyDrugInfo
    /\ ui = <<>>

NextParse == InteractionsResponse

SpecParse == InitParse /\ [][NextParse]_vars

(***************************************************************************)
(* The output grammar of /interactions (build_prompt): blocks of five      *)
(* header lines, each header at the start of its line and followed by a    *)
(* value that is not blank.                                                *)
(***************************************************************************)

GrammarHeaders ==
    <<"**Interaction ", "**Severity**:", "**What happens**:",
      "**Risks or symptoms**:", "**Advice**:">>

\* the lines of a text that are not blank
NonBlankLines(text) == SelectSeq(split(text, "\n"), LAMBDA l : strip(l) # "")

\* the value line carries as the k-th line of a block, trimmed; "" when line is
\* not that header followed by a value
GrammarValue(line, k) ==
    IF k = 1
    THEN LET d1 == Len(GrammarHeaders[1]) + 1
             d2 == RunEnd(line, d1, Digits)
         IN  IF startswith(line, GrammarHeaders[1]) /\ d2 > d1
                /\ OccursAt(line, "**:", d2)
             THEN strip(Drop(line, d2 + 2))
             ELSE ""
    ELSE IF startswith(line, GrammarHeaders[k])
         THEN strip(Drop(line, Len(GrammarHeaders[k])))
         ELSE ""

\* text follows the grammar: one block or more, nothing else
WellFormed(text) ==
    LET lines == NonBlankLines(text)
    IN  /\ Len(lines) > 0
        /\ Len(lines) % 5 = 0
        /\ \A i \in 1..Len(lines) : GrammarValue(lines[i], ((i - 1) % 5) + 1) # ""

\* the number of blocks of a well-formed text
BlockCount(text) == Len(NonBlankLines(text)) \div 5

\* the values of the n-th block of a well-formed text
GrammarRecord(text, n) ==
    LET lines == NonBlankLines(text)
        v(k)  == GrammarValue(lines[5 * (n - 1) + k], k)
    IN  [interaction |-> v(1), severity |-> v(2), what |-> v(3), risks |-> v(4),
         advice |-> v(5), message |-> ""]

(***************************************************************************)
(* Properties of parse_interactions (SpecParse)                            *)
(***************************************************************************)

\* the Drug Interactions tab has parsed the explanation of a 200 response
Parsed ==
    /\ pc = "done"
    /\ client = "frontend"
    /\ request.endpoint = "/interactions"
    /\ response.status_code = 200

\* C1: for a well-formed text of N >= 1 blocks parse_interactions returns N
\* records, in the order of the blocks, the first block included, and every
\* one of the five fields of every record is the value of its header line,
\* hence not empty.
C1_WellFormedBlocksParsed ==
    (Parsed /\ WellFormed(response.explanation)) =>
        /\ Len(interactions) = BlockCount(response.explanation)
        /\ \A n \in 1..Len(interactions) :
              /\ interactions[n] = GrammarRecord(response.explanation, n)
              /\ interactions[n].interaction # ""
              /\ interactions[n].severity # ""
              /\ interactions[n].what # ""
              /\ interactions[n].risks # ""
              /\ interactions[n].advice # ""

\* a well-formed text of two blocks has been parsed into two records
C1_TwoBlocksParsed ==
    /\ Parsed
    /\ WellFormed(response.explanation)
    /\ BlockCount(response.explanation) = 2
    /\ Len(interactions) = 2

\* the text starts with '>' once trimmed
StartsWithMarker(text) == At(strip(text), 1) = ">"

\* C2, amended: a text whose first character after trimming is '>' gives
\* exactly one no-interaction record and no interaction record, whatever
\* follows the '>'; its message is the trimmed text with every backslash-
\* escaped pair of asterisks unescaped.
C2_MarkerGivesOneNoInteractionRecord ==
    (Parsed /\ StartsWithMarker(response.explanation)) =>
        /\ Len(interactions) = 1
        /\ interactions[1].severity = "info"
        /\ interactions[1].interaction = ""
        /\ interactions[1].what = ""
        /\ interactions[1].risks = ""
        /\ interactions[1].advice = ""
        /\ interactions[1].message
              = strip(replace(response.explanation, "\\*\\*", "**"))

\* a '>' text that goes on with an Interaction header has been parsed
C2_MarkerBeforeHeaderParsed ==
    /\ Parsed
    /\ StartsWithMarker(response.explanation)
    /\ find(response.explanation, "**Interaction 1**: ") > 0
    /\ Len(interactions) = 1

\* C2, as the specification states it: the message of the no-interaction
\* record is the trimmed text.
C2_MessageIsTrimmedText ==
    (Parsed /\ StartsWithMarker(response.explanation)) =>
        /\ Len(interactions) = 1
        /\ interactions[1].message = strip(response.explanation)

\* the fragments the split on the Interaction header leaves of a text
Fragments(text) == split(replace(text, "\\*\\*", "**"), "\n**Interaction")

\* a line of fragment, trimmed, starts with one of the five headers
HasHeaderLine(fragment) ==
    LET lines == split(fragment, "\n")
    IN  \E i \in 1..Len(lines) :
            \/ startswith(strip(lines[i]), "**Interaction")
            \/ \E k \in 2..Len(GrammarHeaders) :
                    startswith(strip(lines[i]), GrammarHeaders[k])

\* the fragments that carry a header: those that follow an Interaction header
\* (every one but the first) and those with a header line, if not blank
HeaderFragments(text) ==
    LET fs == Fragments(text)
    IN  {i \in 1..Len(fs) : strip(fs[i]) # "" /\ (i > 1 \/ HasHeaderLine(fs[i]))}

\* C7, as the specification states it: a fragment with none of the five
\* headers contributes no record, so there are as many records as there are
\* fragments that carry a header.
C7_HeaderlessFragmentDropped ==
    (Parsed /\ ~StartsWithMarker(response.explanation)) =>
        Len(interactions) = Cardinality(HeaderFragments(response.explanation))

\* every fragment of the text is blank
AllFragmentsBlank(text) ==
    \A i \in 1..Len(Fragments(text)) : strip(Fragments(text)[i]) = ""

\* C8, amended: the result is either a sequence of interaction records, each
\* with an empty message, or exactly one no-interaction record with a message
\* that is not empty, never a mixture; the sequence of interaction records is
\* empty exactly when the text has no '>' marker and every fragment of it is
\* blank, as for a blank text, and the tab then shows "No interactions found.".
C8_RecordsOrOneNoInteraction ==
    Parsed =>
        IF StartsWithMarker(response.explanation)
        THEN /\ Len(interactions) = 1
             /\ interactions[1].message # ""
             /\ interactions[1].severity = "info"
        ELSE /\ \A n \in 1..Len(interactions) : interactions[n].message = ""
             /\ (interactions = <<>>) = AllFragmentsBlank(response.explanation)
             /\ (interactions = <<>>) =>
                    ui = <<Widget("markdown", "### Interaction Explanation"),
                           Widget("info", "No interactions found.")>>

\* a blank text has been parsed into no record at all
C8_BlankTextParsed ==
    /\ Parsed
    /\ strip(response.explanation) = ""
    /\ interactions = <<>>

\* C8, as the specification states it: the result is never an empty sequence.
\* It is a non-empty sequence of interaction records or exactly one
\* no-interaction record.
C8_NeverEmpty ==
    Parsed =>
        \/ /\ Len(interactions) >= 1
           /\ \A n \in 1..Len(interactions) : interactions[n].message = ""
        \/ /\ Len(interactions) = 1
           /\ interactions[1].message # ""

(***************************************************************************)
(* Properties of the response normalization (SpecNormalize)                *)
(***************************************************************************)

\* the endpoint has answered with the normalized text of the generator
Normalized ==
    /\ pc \in {"responded", "done"}
    /\ completion.outcome = "content"
    /\ response.status_code = 200

\* C4, as the specification states it: the normalization of the /interactions
\* endpoint is idempotent, on the text of the generator and on the answer of
\* the endpoint: normalize(normalize(x)) = normalize(x).
C4_NormalizationIdempotent ==
    (Normalized /\ request.endpoint = "/interactions") =>
        /\ PostProcess(PostProcess(completion.content))
              = PostProcess(completion.content)
        /\ PostProcess(response.explanation) = response.explanation

\* the header tokens of the two output grammars
HeaderTokens ==
    <<"**Interaction", "**Severity**", "**What happens**", "**Risks or symptoms**",
      "**Advice**", "**Description**", "**Uses**", "**Side Effects**", "**Dosage**",
      "**Names**", "**Pregnancy**", "**Personalized Dose**">>

\* text contains no header token, in any letter case
NoHeader(text) ==
    \A k \in 1..Len(HeaderTokens) :
        \A i \in 1..Len(text) : ~OccursAtIgnoreCase(text, HeaderTokens[k], i)

\* the characters of s[lo..hi] that are not white space
RECURSIVE squeezeRange(_, _, _)
squeezeRange(s, lo, hi) ==
    IF lo > hi THEN ""
    ELSE IF lo = hi THEN (IF At(s, lo) \in Whitespace THEN "" ELSE At(s, lo))
         ELSE LET mid == (lo + hi) \div 2
              IN  squeezeRange(s, lo, mid) \o squeezeRange(s, mid + 1, hi)

Squeeze(s) == squeezeRange(s, 1, Len(s))

\* text has nothing the white-space steps change: no white space at either
\* end, no run of spaces, no run of three newlines
WhitespaceNormal(text) ==
    /\ strip(text) = text
    /\ find(text, "  ") = 0
    /\ find(text, "\n\n\n") = 0

\* C5, amended: on a text without any section header the normalization of
\* either endpoint changes white space only: the characters that are not
\* white space come out the same, in the same order and letter case, and a
\* text with no white space at its ends, no run of spaces and no run of three
\* newlines comes out character for character.
C5_HeaderFreeTextKeepsItsCharacters ==
    (Normalized /\ NoHeader(completion.content)) =>
        /\ Squeeze(response.explanation) = Squeeze(completion.content)
        /\ Len(response.explanation) <= Len(completion.content)
        /\ WhitespaceNormal(completion.content) =>
                response.explanation = completion.content

\* a header-free text with letters in it has come out with its white space changed
C5_HeaderFreeTextChanged ==
    /\ Normalized
    /\ NoHeader(completion.content)
    /\ Squeeze(completion.content) # ""
    /\ response.explanation # completion.content

\* C5, as the specification states it: a text without any section header is
\* returned unchanged, character for character, by either endpoint.
C5_HeaderFreeTextUnchanged ==
    (Normalized /\ NoHeader(completion.content)) =>
        response.explanation = completion.content

\* a text without white space, in lower case
Canon(text) == lower(Squeeze(text))

\* the Drug Interactions tab has parsed the normalized answer to a
\* well-formed text of the generator
RoundTripDone ==
    /\ Normalized
    /\ pc = "done"
    /\ request.endpoint = "/interactions"
    /\ WellFormed(completion.content)

C3_NoGeneratorCallOnEmptyInput ==
    (pc = "generating" /\ client = "frontend") =>
        IF request.endpoint = "/interactions"
        THEN /\ Len(request.medications) > 0
             /\ \A i \in 1..Len(request.medications) :
                    strip(request.medications[i]) # ""
        ELSE strip(request.medication) # ""

\* the generator call of the current request failed
GeneratorFailed == completion.outcome \in {"error", "none_content"}

\* C9: when the generator call fails, the endpoint answers with a 500 that
\* carries the error text and no explanation; the frontend then shows the
\* error and neither parses nor renders a record.
C9_GeneratorFailureIsDistinct ==
    GeneratorFailed =>
        /\ response.status_code = 500
        /\ response.explanation = ""
        /\ response.detail # ""
        /\ completion.outcome = "error" =>
                /\ response.detail = completion.error
                /\ response.text = "{\"detail\":\"" \o completion.error \o "\"}"
        /\ (pc = "done" /\ client = "frontend") =>
                /\ ui = <<Widget("error", "API error: " \o response.text)>>
                /\ interactions = <<>>
                /\ drug_info = EmptyDrugInfo

\* the frontend has handled the response of a failed generator call
C9_FrontendSawFailure ==
    /\ completion.outcome = "error"
    /\ pc = "done"
    /\ client = "frontend"
    /\ ui # <<>>

\* C10, as the specification states it: no prompt is built, and the generator
\* is not called, for a drug-info request with height <= 0 or weight <= 0.
C10_NoPromptForNonPositiveMeasurement ==
    prompt.endpoint = "/drug-info" =>
        /\ prompt.content.height > 0
        /\ prompt.content.weight > 0

\* the Drug Information tab has parsed the answer to a request whose
\* "Are you pregnant?" box was not ticked
ParsedForNotPregnant ==
    /\ pc = "done"
    /\ client = "frontend"
    /\ request.endpoint = "/drug-info"
    /\ response.status_code = 200
    /\ ~request.personal_info.is_pregnant

\* C11, as the specification states it: when is_pregnant is false the
\* pregnancy field of the record parse_drug_info returns is empty, whatever
\* the text of the generator contains.
C11_PregnancyEmptyWhenNotPregnant ==
    ParsedForNotPregnant => drug_info.pregnancy = ""

(***************************************************************************)
(* The lines of a block (SpecParse)                                        *)
(***************************************************************************)

\* the prefixes the loop over the sections tests a line for
HeaderPrefixes ==
    <<"**Interaction", "**Severity**:", "**What happens**:",
      "**Risks or symptoms**:", "**Advice**:">>

\* the blocks of a text: its fragments that are not blank, each trimmed and
\* with the Interaction prefix the split took away
Blocks(text) ==
    LET kept == SelectSeq(Fragments(text), LAMBDA f : strip(f) # "")
    IN  [n \in 1..Len(kept) |-> Reattach(strip(kept[n]))]

\* the lines of a block, trimmed
BlockLines(block) ==
    LET lines == split(block, "\n")
    IN  [j \in 1..Len(lines) |-> strip(lines[j])]

\* the number of the header prefix line starts with, 0 when it starts with none
HeaderOf(line) ==
    First(1, Len(HeaderPrefixes), LAMBDA k : startswith(line, HeaderPrefixes[k]))

\* the value of a line that starts with header prefix k
ValueOf(line, k) ==
    IF k = 1 THEN strip(SubInteractionHeader(line))
    ELSE strip(SubHeader(line, HeaderPrefixes[k]))

\* the value of the last line of lines that starts with header prefix k,
\* "" when no line does
LastValue(lines, k) ==
    LET j == Last(1, Len(lines), LAMBDA i : HeaderOf(lines[i]) = k)
    IN  IF j = 0 THEN "" ELSE ValueOf(lines[j], k)

\* a line of lines is not blank and starts with no header prefix
HasIgnoredLine(lines) ==
    \E j \in 1..Len(lines) : lines[j] # "" /\ HeaderOf(lines[j]) = 0

\* two lines of lines start with the same header prefix and carry two values
HasRepeatedHeader(lines) ==
    \E i, j \in 1..Len(lines) :
        /\ i < j
        /\ HeaderOf(lines[i]) > 0
        /\ HeaderOf(lines[i]) = HeaderOf(lines[j])
        /\ ValueOf(lines[i], HeaderOf(lines[i])) # ValueOf(lines[j], HeaderOf(lines[j]))

\* C12: each field of a record is the value of one line of its block, the
\* last line that starts with the field's header prefix, and is empty when no
\* line does; a line that starts with none of the five prefixes gives nothing
\* to any field.
C12_FieldIsValueOfLastHeaderLine ==
    (Parsed /\ ~StartsWithMarker(response.explanation)) =>
        LET blocks == Blocks(response.explanation)
        IN  /\ Len(interactions) = Len(blocks)
            /\ \A n \in 1..Len(interactions) :
                  LET lines == BlockLines(blocks[n])
                  IN  interactions[n] =
                        [interaction |-> LastValue(lines, 1),
                         severity |-> LastValue(lines, 2),
                         what |-> LastValue(lines, 3),
                         risks |-> LastValue(lines, 4),
                         advice |-> LastValue(lines, 5),
                         message |-> ""]

\* a block with a second line after its Advice and with Severity said twice
\* has been parsed: the record has the later severity and the first line of
\* the advice only
C12_MessyBlockParsed ==
    /\ Parsed
    /\ ~StartsWithMarker(response.explanation)
    /\ Len(interactions) = 1
    /\ HasIgnoredLine(BlockLines(Blocks(response.explanation)[1]))
    /\ HasRepeatedHeader(BlockLines(Blocks(response.explanation)[1]))
    /\ find(response.explanation, "**Advice**: consult doctor\nand see a pharmacist") > 0
    /\ interactions[1].severity = "moderate"
    /\ interactions[1].advice = "consult doctor"

====
